---- MODULE Spec2Model ----
(***************************************************************************)
(* Model of jupyter/02-makemore/makemore.py: a linear script that builds   *)
(* a character vocabulary from a list of words, counts adjacent character  *)
(* pairs into a fixed 27x27 int32 matrix, annotates a heatmap of it and    *)
(* normalises row 0 into a probability row.                                *)
(*                                                                         *)
(* Characters are their code points.  Python exceptions (KeyError on a     *)
(* dict lookup, IndexError on a tensor index) end the script: pc becomes   *)
(* "error" and err names the exception.  float32 values are modelled as    *)
(* exact quotients num/den, with the IEEE results nan and inf for a zero   *)
(* denominator; rounding of the division is outside the model.             *)
(***************************************************************************)
EXTENDS Integers, Sequences, FiniteSets, TLC

(* ---------------- bounds of the corpora ---------------- *)

MaxWords == 2

MaxLen == 2

(* ---------------- program constants ---------------- *)

\* torch.zeros((27, 27)), range(27)
Dim == 27

\* the code point of ".", the boundary symbol
Dot == 46

\* the largest int32
Int32Max == 2147483647

VARIABLES words, pc, err, N, stoi, itos, wi, c, i, ri, rj, plot, p

vars == <<words, pc, err, N, stoi, itos, wi, c, i, ri, rj, plot, p>>

(* ---------------- the corpora explored ---------------- *)

\* ".", "a"
SmallAlpha == {46, 97}

\* "a" .. "z"
Letters == 97..122

\* 26 characters that sort before "." and are no line boundary of splitlines
LowChars == (16..27) \cup (32..45)

RECURSIVE SeqsUpTo(_, _)
SeqsUpTo(S, n) ==
  IF n = 0 THEN {<<>>}
  ELSE LET shorter == SeqsUpTo(S, n - 1)
       IN  shorter \cup {Append(s, x) : s \in {t \in shorter : Len(t) = n - 1}, x \in S}

RECURSIVE Sorted(_)
Sorted(S) ==
  IF S = {} THEN <<>>
  ELSE LET m == CHOOSE x \in S : \A y \in S : x <= y
       IN  <<m>> \o Sorted(S \ {m})

SmallWords == SeqsUpTo(SmallAlpha, MaxLen)

\* the 26 letters; 26 low characters and "."; the 26 letters and "{"
SpecialWords ==
  { Sorted(Letters), Sorted(LowChars) \o <<46>>, Sorted(Letters) \o <<123>> }

SmallCorpora == SeqsUpTo(SmallWords, MaxWords)

Corpora ==
  SmallCorpora \cup
  { <<s>> \o t : s \in SpecialWords, t \in {u \in SmallCorpora : Len(u) <= 1} }

(* ---------------- helpers ---------------- *)

EmptyMap == [x \in {} |-> 0]

Idx == 0..(Dim - 1)

Cells == Idx \X Idx

Zeros == [cell \in Cells |-> 0]

\* set("".join(words))
CharSet(ws) == UNION { {ws[k][m] : m \in 1..Len(ws[k])} : k \in 1..Len(ws) }

\* the index of position k (from 1) with the "+1" forgotten
EnumIndexNoShift(k) == k - 1

\* the index enumerate() position k (from 1) gets in the comprehension: i+1
EnumIndex(k) == k

\* stoi = { x:(i+1) for i, x in enumerate(chars)}
StoiOf(chars) ==
  [x \in {chars[k] : k \in 1..Len(chars)} |->
     EnumIndex(CHOOSE k \in 1..Len(chars) : chars[k] = x)]

\* d[key] = val
DictSet(d, key, val) ==
  [x \in (DOMAIN d) \cup {key} |-> IF x = key THEN val ELSE d[x]]

\* insertion order of the keys of stoi: chars, then "." if it was not in chars
KeyOrder(chars) ==
  IF \E k \in 1..Len(chars) : chars[k] = Dot THEN chars ELSE Append(chars, Dot)

\* { i:s for s,i in d.items() }, the items taken in insertion order
RECURSIVE Invert(_, _, _)
Invert(d, keys, acc) ==
  IF keys = <<>> THEN acc
  ELSE Invert(d, Tail(keys), DictSet(acc, d[Head(keys)], Head(keys)))

\* the wrapped word without the closing boundary
WrapNoEnd(w) == <<Dot>> \o w

\* c = ["."] + list(w) + ["."]
Wrap(w) == <<Dot>> \o w \o <<Dot>>

\* N[a, b] += 1 on an int32 entry: the addition wraps
Int32Inc(x) == IF x = Int32Max THEN (0 - Int32Max) - 1 ELSE x + 1

\* a float32 holding the value num/den
Num(n, d) == [kind |-> "num", num |-> n, den |-> d]

NaN == [kind |-> "nan", num |-> 0, den |-> 0]

Inf == [kind |-> "inf", num |-> 0, den |-> 0]

\* tensor.float() of an int32 entry
ToFloat(x) == Num(x, 1)

RECURSIVE SumNums(_, _)
SumNums(v, n) == IF n = 0 THEN 0 ELSE v[n - 1].num + SumNums(v, n - 1)

\* x / s for x holding an integer and s the integer sum
DivFloat(x, s) ==
  IF s # 0 THEN Num(x.num, s)
  ELSE IF x.num = 0 THEN NaN ELSE Inf

(* ---------------- the script ---------------- *)

Init ==
  /\ words \in Corpora
  /\ pc = "build"
  /\ err = "none"
  /\ N = Zeros
  /\ stoi = EmptyMap
  /\ itos = EmptyMap
  /\ wi = 1
  /\ c = <<>>
  /\ i = 0
  /\ ri = 0
  /\ rj = 0
  /\ plot = EmptyMap
  /\ p = EmptyMap

\* lines 7-10
BuildVocab ==
  /\ pc = "build"
  /\ LET chars == Sorted(CharSet(words))
         s == DictSet(StoiOf(chars), Dot, 0)
     IN  /\ stoi' = s
         /\ itos' = Invert(s, KeyOrder(chars), EmptyMap)
  /\ pc' = "count"
  /\ UNCHANGED <<words, err, N, wi, c, i, ri, rj, plot, p>>

\* lines 13-15: the next word is taken and wrapped; range(len(c))[:-1] is
\* empty when c has a single element
CountNextWord ==
  /\ pc = "count"
  /\ i = 0
  /\ wi <= Len(words)
  /\ c' = Wrap(words[wi])
  /\ IF Len(c') > 1
     THEN i' = 1 /\ wi' = wi
     ELSE i' = 0 /\ wi' = wi + 1
  /\ UNCHANGED <<words, pc, err, N, stoi, itos, ri, rj, plot, p>>

\* lines 15-16: one pair of the wrapped word
CountPair ==
  /\ pc = "count"
  /\ i >= 1
  /\ IF c[i] \notin DOMAIN stoi \/ c[i + 1] \notin DOMAIN stoi
     THEN /\ pc' = "error"
          /\ err' = "KeyError"
          /\ UNCHANGED <<N, wi, i>>
     ELSE LET a == stoi[c[i]]
              b == stoi[c[i + 1]]
          IN  IF a \notin Idx \/ b \notin Idx
              THEN /\ pc' = "error"
                   /\ err' = "IndexError"
                   /\ UNCHANGED <<N, wi, i>>
              ELSE /\ N' = [N EXCEPT ![<<a, b>>] = Int32Inc(@)]
                   /\ IF i + 1 < Len(c)
                      THEN i' = i + 1 /\ wi' = wi
                      ELSE i' = 0 /\ wi' = wi + 1
                   /\ UNCHANGED <<pc, err>>
  /\ UNCHANGED <<words, stoi, itos, c, ri, rj, plot, p>>

\* line 13 exhausted; lines 18-19
CountDone ==
  /\ pc = "count"
  /\ i = 0
  /\ wi > Len(words)
  /\ pc' = "render"
  /\ ri' = 0
  /\ rj' = 0
  /\ UNCHANGED <<words, err, N, stoi, itos, wi, c, i, plot, p>>

\* lines 20-24: one cell; line 25 after the last one
RenderCell ==
  /\ pc = "render"
  /\ IF ri \notin DOMAIN itos \/ rj \notin DOMAIN itos
     THEN /\ pc' = "error"
          /\ err' = "KeyError"
          /\ UNCHANGED <<c, ri, rj, plot>>
     ELSE /\ c' = <<itos[ri], itos[rj]>>
          /\ plot' = DictSet(plot, <<ri, rj>>, [label |-> c', count |-> N[<<ri, rj>>]])
          /\ IF rj + 1 < Dim
             THEN rj' = rj + 1 /\ ri' = ri /\ pc' = "render"
             ELSE IF ri + 1 < Dim
                  THEN rj' = 0 /\ ri' = ri + 1 /\ pc' = "render"
                  ELSE rj' = rj /\ ri' = ri /\ pc' = "float"
          /\ err' = err
  /\ UNCHANGED <<words, N, stoi, itos, wi, i, p>>

\* line 28
RowFloat ==
  /\ pc = "float"
  /\ p' = [j \in Idx |-> ToFloat(N[<<0, j>>])]
  /\ pc' = "normalize"
  /\ UNCHANGED <<words, err, N, stoi, itos, wi, c, i, ri, rj, plot>>

\* the row normalised in place in the count matrix (truncating)
NormalizeInPlace ==
  /\ pc = "normalize"
  /\ LET s == SumNums(p, Dim)
     IN  /\ p' = [j \in Idx |-> DivFloat(p[j], s)]
         /\ N' = [cell \in Cells |->
                    IF cell[1] = 0 /\ s # 0 THEN N[cell] \div s ELSE N[cell]]
  /\ pc' = "done"
  /\ UNCHANGED <<words, err, stoi, itos, wi, c, i, ri, rj, plot>>

\* line 29
Normalize ==
  /\ pc = "normalize"
  /\ LET s == SumNums(p, Dim)
     IN  p' = [j \in Idx |-> DivFloat(p[j], s)]
  /\ pc' = "done"
  /\ UNCHANGED <<words, err, N, stoi, itos, wi, c, i, ri, rj, plot>>

Next ==
  \/ BuildVocab
  \/ CountNextWord
  \/ CountPair
  \/ CountDone
  \/ RenderCell
  \/ RowFloat
  \/ Normalize

Spec == Init /\ [][Next]_vars

(* ---------------- quantities the properties speak of ---------------- *)

RECURSIVE RowSum(_, _, _)
RowSum(M, r, n) == IF n = 0 THEN 0 ELSE M[<<r, n - 1>>] + RowSum(M, r, n - 1)

RECURSIVE ColSum(_, _, _)
ColSum(M, k, n) == IF n = 0 THEN 0 ELSE M[<<n - 1, k>>] + ColSum(M, k, n - 1)

RECURSIVE SumAll(_, _)
SumAll(M, n) == IF n = 0 THEN 0 ELSE RowSum(M, n - 1, Dim) + SumAll(M, n - 1)

RECURSIVE LenPlusOne(_)
LenPlusOne(ws) == IF ws = <<>> THEN 0 ELSE Len(Head(ws)) + 1 + LenPlusOne(Tail(ws))

\* [boundary, c0, ..., ck, boundary]
Wrapped(w) == <<46>> \o w \o <<46>>

\* the positions at which the character with index b follows the one with index a
PairCount(a, b) ==
  IF a \notin DOMAIN itos \/ b \notin DOMAIN itos THEN 0
  ELSE Cardinality({ pos \in (1..Len(words)) \X (1..(MaxLen + Dim + 1)) :
                       /\ pos[2] < Len(Wrapped(words[pos[1]]))
                       /\ Wrapped(words[pos[1]])[pos[2]] = itos[a]
                       /\ Wrapped(words[pos[1]])[pos[2] + 1] = itos[b] })

StartCount(ch) ==
  Cardinality({ k \in 1..Len(words) : words[k] # <<>> /\ words[k][1] = ch })

\* the counter loop ran to its end
CounterDone == pc \notin {"build", "count"} /\ wi > Len(words)

VocabBuilt == pc # "build"

(* ---------------- properties ---------------- *)

\* C1: once the counter has finished, every cell [a,b] is the number of
\* positions at which the character with index b follows the character with
\* index a in the wrapped words, and cell [0][index(ch)] is the number of
\* words that start with ch.
C1_CellsCountBigrams ==
  CounterDone =>
    /\ \A cell \in Cells : N[cell] = PairCount(cell[1], cell[2])
    /\ \A ch \in CharSet(words) : N[<<0, stoi[ch]>>] = StartCount(ch)

\* C2: once the counter has finished, the sum of all cells is the sum over
\* the words of len(word)+1.
C2_SumIsCharsPlusWords ==
  CounterDone => SumAll(N, Dim) = LenPlusOne(words)

\* a finished count of a corpus with an empty word and a one-character word
C2_Witness ==
  /\ CounterDone
  /\ \E k \in 1..Len(words) : words[k] = <<>>
  /\ \E k \in 1..Len(words) : Len(words[k]) = 1
  /\ SumAll(N, Dim) = 3

\* C3: the vocabulary is a bijection: stoi[itos[x]] = x for every assigned
\* index x and itos[stoi[ch]] = ch for every character ch with an index.
C3_Bijection ==
  VocabBuilt =>
    /\ \A x \in DOMAIN itos : itos[x] \in DOMAIN stoi /\ stoi[itos[x]] = x
    /\ \A ch \in DOMAIN stoi : stoi[ch] \in DOMAIN itos /\ itos[stoi[ch]] = ch

\* a vocabulary built from a corpus that contains "." and another character
C3_Witness ==
  /\ VocabBuilt
  /\ 46 \in CharSet(words)
  /\ Cardinality(DOMAIN stoi) >= 2
  /\ Cardinality(DOMAIN itos) >= 2

\* C4: the distinct characters, sorted, get the indices 1..n in that order,
\* "." gets 0, and the assigned indices are exactly 0..n.
C4_IndicesContiguous ==
  VocabBuilt =>
    LET chars == Sorted(CharSet(words))
    IN  /\ \A k \in 1..Len(chars) : stoi[chars[k]] = k
        /\ stoi[46] = 0
        /\ DOMAIN itos = 0..Len(chars)

\* C5: the counter has no error outcome: every character of the corpus has
\* an index when counting starts and every assigned index addresses a row
\* and a column of the count matrix.
C5_CounterNoError ==
  /\ pc = "count" =>
       /\ \A ch \in CharSet(words) : ch \in DOMAIN stoi
       /\ \A x \in DOMAIN itos : x \in Idx
  /\ ~(pc = "error" /\ wi <= Len(words))

\* C6: on the empty corpus the script reaches the extractor, which yields a
\* not-a-number row; no earlier step raises an error.
C6_EmptyCorpusYieldsNaN ==
  (words = <<>> /\ pc \in {"done", "error"}) =>
    /\ pc = "done"
    /\ err = "none"
    /\ \A j \in Idx : p[j] = NaN

\* C7: for a non-empty corpus the probability row is row 0 divided by its
\* sum, it sums to 1, the sum of row 0 is positive and is the number of
\* words, and p[0] is 0 when no word is empty.
C7_ProbabilityRow ==
  (pc = "done" /\ words # <<>>) =>
    LET s == RowSum(N, 0, Dim)
    IN  /\ s > 0
        /\ s = Len(words)
        /\ \A j \in Idx : p[j] = Num(N[<<0, j>>], s)
        /\ SumNums(p, Dim) = s
        /\ (\A k \in 1..Len(words) : words[k] # <<>>) => p[0].num = 0

\* C8: whenever the counter completes, the renderer completes and annotates
\* every cell (a,b) with the label itos[a]+itos[b] and the count N[a][b].
C8_RendererCompletes ==
  CounterDone =>
    /\ err # "KeyError"
    /\ pc # "render" =>
         /\ DOMAIN plot = Cells
         /\ \A cell \in Cells :
              plot[cell] = [label |-> <<itos[cell[1]], itos[cell[2]]>>,
                            count |-> N[cell]]

\* C9: only the counter writes the count matrix, and stoi and itos do not
\* change once the vocabulary is built.
C9_Frame ==
  [][ /\ pc # "count" => N' = N
      /\ VocabBuilt => (stoi' = stoi /\ itos' = itos) ]_vars

\* the renderer and the extractor have both run to their end
C9_Witness ==
  /\ pc = "done"
  /\ DOMAIN plot = Cells
  /\ DOMAIN p = Idx
  /\ RowSum(N, 0, Dim) >= 2

\* C10: after each fully processed word every row sum equals the column sum
\* of the same index, and row 0 and column 0 both sum to the number of words
\* processed so far.
C10_RowsBalanceColumns ==
  ((pc = "count" /\ i = 0) \/ CounterDone) =>
    /\ \A x \in Idx : RowSum(N, x, Dim) = ColSum(N, x, Dim)
    /\ RowSum(N, 0, Dim) = wi - 1
    /\ ColSum(N, 0, Dim) = wi - 1

====
